---- MODULE Spec2Model ----
(***************************************************************************)
(* Front end of the insurance advisor: the root component App, the         *)
(* customer form and the page-level views it mounts, with the requests     *)
(* each of them has in flight against the backend.                         *)
(*                                                                         *)
(* A view's local state exists only while the view is mounted: App renders *)
(* exactly one view, so leaving a view discards its state and entering it  *)
(* starts from the useState initial values and runs the mount effect.      *)
(* A request is not cancelled when its view is unmounted: it stays in      *)
(* flight (in orphans), its continuation still runs, and only the state    *)
(* updates of the unmounted instance are lost.                             *)
(*                                                                         *)
(* The views share no state with one another: each reads and writes its    *)
(* own useState cells and its own requests, and App only decides which one *)
(* is mounted.  The application is therefore explored one view at a time:  *)
(* every behaviour follows App in full together with one view, focus,      *)
(* chosen at the start; the other views are placeholders that App mounts   *)
(* and unmounts (as Customer360 is, whose source is not part of the        *)
(* repository).  The customer form is followed with the two views that     *)
(* need the customer it creates, NeedsAnalysis and Recommendations.        *)
(***************************************************************************)
EXTENDS Integers, Sequences, FiniteSets, Bags, TLC

(* ------------------------------------------------------------------ *)
(* Bounds of the model                                                 *)
(* ------------------------------------------------------------------ *)
\* distinct payloads the backend may answer a read with (1..MaxData)
MaxData == 2
\* customer ids the backend may assign: 0 (a falsy id) .. MaxId
MaxId == 2
\* requests of unmounted view instances that may be in flight together
MaxOrphans == 1
\* products the catalogue endpoint returns (ids 1..MaxProducts)
MaxProducts == 2
\* customers the customers endpoint returns (ids 1..MaxCustomers)
MaxCustomers == 2
\* calendar window of the age computation: years BaseYear..BaseYear+YearSpan,
\* months 1..MaxMonth
BaseYear == 2019
YearSpan == 1
MaxMonth == 2

(* ------------------------------------------------------------------ *)
(* Values                                                              *)
(* ------------------------------------------------------------------ *)
\* useState<number | null>(null)
NoId == -1
\* result of calculateAge when there is no age, and the draft's missing age
NullAge == -1
UndefinedAge == -2
\* a data variable that holds nothing yet (null or [])
NoData == 0
Data == 1..MaxData
\* error: string | null; the code never stores an empty string
NoError == ""
NoDate == <<>>
NoMessage == [type |-> "none", text |-> ""]

Truthy(id) == id # NoId /\ id # 0

ViewType == {"analytics-dashboard", "customer", "customers-360", "products",
             "needs-analysis", "recommendations", "product-comparison",
             "pdf-reports", "inflation-calculator", "market-data"}

\* ids of menuItems, in order
menuItems == <<"analytics-dashboard", "customers-360", "customer", "products",
               "product-comparison", "pdf-reports", "inflation-calculator",
               "market-data">>

MenuIds == {menuItems[i] : i \in 1..Len(menuItems)}

\* option values of the period select, in order: 7d, 30d, 90d, 1y
Periods == <<"7d", "30d", "90d", "1y">>
DefaultPeriod == 2

VARIABLES
  currentView, isMenuOpen, loading, message, currentCustomerId,
  formData,
  dash, market, needs, recs, plist, cmp, pdf, infl,
  reqs, orphans,
  today, tzWest, canShare, dobArg, ageResult,
  focus, last

appVars == <<currentView, isMenuOpen, loading, message, currentCustomerId>>
viewVars == <<dash, market, needs, recs, plist, cmp, pdf, infl>>
envVars == <<today, tzWest, canShare, focus>>
ageVars == <<dobArg, ageResult>>
vars == <<appVars, formData, viewVars, reqs, orphans, envVars, ageVars, last>>

(* ------------------------------------------------------------------ *)
(* Calendar and calculateAge                                           *)
(* ------------------------------------------------------------------ *)
IsLeap(y) == (y % 4 = 0 /\ y % 100 # 0) \/ y % 400 = 0

DaysInMonth(y, m) ==
  IF m = 2 THEN (IF IsLeap(y) THEN 29 ELSE 28)
  ELSE IF m \in {4, 6, 9, 11} THEN 30 ELSE 31

\* the calendar day before <<y, m, d>>
PrevDay(dt) ==
  IF dt[3] > 1 THEN <<dt[1], dt[2], dt[3] - 1>>
  ELSE IF dt[2] > 1 THEN <<dt[1], dt[2] - 1, DaysInMonth(dt[1], dt[2] - 1)>>
  ELSE <<dt[1] - 1, 12, 31>>

\* the calendar day after <<y, m, d>>
NextDay(dt) ==
  IF dt[3] < DaysInMonth(dt[1], dt[2]) THEN <<dt[1], dt[2], dt[3] + 1>>
  ELSE IF dt[2] < 12 THEN <<dt[1], dt[2] + 1, 1>>
  ELSE <<dt[1] + 1, 1, 1>>

\* new Date("YYYY-MM-DD") is midnight UTC of that day; getFullYear, getMonth
\* and getDate read it in local time, which west of UTC is the day before
LocalFields(dob, west) == IF west THEN PrevDay(dob) ELSE dob

calculateAge(dob, now, west) ==
  IF dob = NoDate THEN NullAge
  ELSE LET birthDate == LocalFields(dob, west)
           age0 == now[1] - birthDate[1]
           m == now[2] - birthDate[2]
           age == IF m < 0 \/ (m = 0 /\ now[3] < birthDate[3])
                  THEN age0 - 1 ELSE age0
       IN IF age >= 0 THEN age ELSE NullAge

Dates == {<<y, m, d>> \in (BaseYear..(BaseYear + YearSpan)) \X (1..MaxMonth) \X (1..31) :
            d <= DaysInMonth(y, m)}

(* ------------------------------------------------------------------ *)
(* Requests in flight                                                  *)
(* ------------------------------------------------------------------ *)
\* a request: its endpoint (kind), the values its URL or body carries (arg)
\* and the data variables of its view when the fetch that issued it began
Req(kind, arg, snap) == [kind |-> kind, arg |-> arg, snap |-> snap]

Owner(kind) ==
  CASE kind = "createCustomer" -> "app"
    [] kind = "dashboard" -> "analytics-dashboard"
    [] kind \in {"market.latest", "market.trends", "market.insights"} -> "market-data"
    [] kind \in {"needs.getCustomer", "needs.create", "needs.enhanced"} -> "needs-analysis"
    [] kind = "recommendations" -> "recommendations"
    [] kind = "products" -> "products"
    [] kind \in {"cmp.products", "cmp.compare"} -> "product-comparison"
    [] kind \in {"pdf.customers", "pdf.needs-analysis", "pdf.comprehensive"} -> "pdf-reports"
    [] kind = "calculator" -> "inflation-calculator"

OwnedBy(B, v) == [r \in {x \in DOMAIN B : Owner(x.kind) = v} |-> B[r]]
NotOwnedBy(B, v) == [r \in {x \in DOMAIN B : Owner(x.kind) # v} |-> B[r]]
OfKind(B, kinds) == [r \in {x \in DOMAIN B : x.kind \in kinds} |-> B[r]]
One(r) == SetToBag({r})

\* what is followed of a request once its instance is unmounted: its endpoint,
\* and for a PDF request what its file name is made of, the customer id and, of
\* the customers list the click closed over, the entry with that id (a list of
\* length id if it has one, the empty list if not); the snapshot and the other
\* arguments are read only by the state updates of a mounted instance
Abandoned(r) ==
  [kind |-> r.kind,
   arg |-> IF r.kind \in {"pdf.needs-analysis", "pdf.comprehensive"} THEN r.arg ELSE <<>>,
   snap |-> IF r.kind \in {"pdf.needs-analysis", "pdf.comprehensive"}
            THEN <<IF r.snap[2] \in 1..r.snap[1] THEN r.snap[2] ELSE 0, r.snap[2]>>
            ELSE <<>>]

Orphaned(B) ==
  LET S == {Abandoned(r) : r \in DOMAIN B}
      Count(o) == BagCardinality([r \in {x \in DOMAIN B : Abandoned(x) = o} |-> B[r]])
  IN [o \in S |-> Count(o)]

\* number of requests of the given kinds in flight, whoever issued them
InFlight(kinds) == BagCardinality(OfKind(reqs, kinds)) + BagCardinality(OfKind(orphans, kinds))

(* ------------------------------------------------------------------ *)
(* Initial (useState) values of the components                         *)
(* ------------------------------------------------------------------ *)
NoMetrics == <<0, NoData>>

formInit == [name |-> "", email |-> "", phone |-> "", date_of_birth |-> NoDate,
             age |-> UndefinedAge]
dashInit == [metrics |-> NoMetrics, loading |-> TRUE, error |-> NoError,
             selectedPeriod |-> DefaultPeriod]
marketInit == [marketData |-> NoData, trends |-> NoData, insights |-> NoData,
               loading |-> TRUE, error |-> NoError]
needsInit == [data |-> NoData, loading |-> TRUE, error |-> NoError]
recsInit == [recommendations |-> NoData, loading |-> TRUE, error |-> NoError]
plistInit == [products |-> NoData, loading |-> TRUE, error |-> NoError]
\* products: the catalogue holds the products 1..products
cmpInit == [products |-> 0, selectedProducts |-> <<>>, comparisonResult |-> NoData,
            loading |-> FALSE, error |-> NoError]
\* customers: the list holds the customers 1..customers
\* showDropdown: the useState cell of the ShareButton beside the first
\* Generate PDF button
pdfInit == [customers |-> 0, selectedCustomer |-> NoId, loading |-> FALSE,
            error |-> NoError, success |-> "", showDropdown |-> FALSE]
inflInit == [result |-> NoData, loading |-> FALSE, error |-> NoError]

(* ------------------------------------------------------------------ *)
(* Mounting: the content switch of App                                 *)
(* ------------------------------------------------------------------ *)
\* the component of view v is rendered when App holds (view, cid)
IsMounted(v, view, cid) ==
  view = v /\ (v \in {"needs-analysis", "recommendations"} => Truthy(cid))

Mounted(v) == IsMounted(v, currentView, currentCustomerId)

\* view v is mounted and is the view this behaviour follows
Active(v) == focus = v /\ Mounted(v)

\* the customer form is mounted and this behaviour follows it
FormActive == currentView = "customer" /\ focus \in {"needs-analysis", "recommendations"}

\* the requests the mount effect of view v issues
MountReqs(v, cid) ==
  CASE v # focus -> {}
    [] v = "analytics-dashboard" -> {Req("dashboard", <<DefaultPeriod>>, NoMetrics)}
    [] v = "market-data" -> {Req("market.latest", <<>>, <<NoData, NoData, NoData>>)}
    [] v = "needs-analysis" -> {Req("needs.getCustomer", <<cid>>, <<NoData>>)}
    [] v = "recommendations" -> {Req("recommendations", <<cid>>, <<NoData>>)}
    [] v = "products" -> {Req("products", <<>>, <<NoData>>)}
    [] v = "product-comparison" -> {Req("cmp.products", <<>>, <<0, NoData>>)}
    [] v = "pdf-reports" -> {Req("pdf.customers", <<>>, <<0>>)}
    [] OTHER -> {}

\* the effects with dependency [customerId] run again when the prop changes
RerunReqs(v, cid) ==
  CASE v # focus -> {}
    [] v = "needs-analysis" -> {Req("needs.getCustomer", <<cid>>, <<needs.data>>)}
    [] v = "recommendations" -> {Req("recommendations", <<cid>>, <<recs.recommendations>>)}
    [] OTHER -> {}

\* App goes from (currentView, currentCustomerId) to (nv, ncid) with rq in
\* flight: the view left is unmounted, the view entered is mounted
Reconcile(nv, ncid, rq) ==
  LET unmounting == Mounted(currentView) /\ ~IsMounted(currentView, nv, ncid)
      mounting == IsMounted(nv, nv, ncid) /\ ~IsMounted(nv, currentView, currentCustomerId)
      rerun == /\ IsMounted(nv, nv, ncid)
               /\ IsMounted(nv, currentView, currentCustomerId)
               /\ nv \in {"needs-analysis", "recommendations"}
               /\ ncid # currentCustomerId
      kept(v, cur, init) ==
        IF IsMounted(v, nv, ncid) /\ IsMounted(v, currentView, currentCustomerId)
        THEN cur ELSE init
      issued == IF mounting THEN MountReqs(nv, ncid)
                ELSE IF rerun THEN RerunReqs(nv, ncid) ELSE {}
  IN /\ reqs' = (IF unmounting THEN NotOwnedBy(rq, currentView) ELSE rq) (+) SetToBag(issued)
     /\ orphans' = IF unmounting THEN orphans (+) Orphaned(OwnedBy(rq, currentView))
                   ELSE orphans
     /\ BagCardinality(orphans') <= MaxOrphans
     /\ formData' = kept("customer", formData, formInit)
     /\ dash' = kept("analytics-dashboard", dash, dashInit)
     /\ market' = kept("market-data", market, marketInit)
     /\ needs' = IF rerun /\ nv = "needs-analysis"
                 THEN [needs EXCEPT !.loading = TRUE]
                 ELSE kept("needs-analysis", needs, needsInit)
     /\ recs' = IF rerun /\ nv = "recommendations"
                THEN [recs EXCEPT !.loading = TRUE]
                ELSE kept("recommendations", recs, recsInit)
     /\ plist' = kept("products", plist, plistInit)
     /\ cmp' = kept("product-comparison", cmp, cmpInit)
     /\ pdf' = IF mounting /\ nv = "pdf-reports"
               THEN [pdfInit EXCEPT !.loading = TRUE]
               ELSE kept("pdf-reports", pdf, pdfInit)
     /\ infl' = kept("inflation-calculator", infl, inflInit)

\* the handler or continuation that ran last
\* snap: the data variables the fetch started from (for the response to
\* createCustomer: the view App showed when it arrived)
\* saved: the file the step saved, if it saved one
NoFile == <<>>
\* a response body without a detail member
NoDetail == ""
Ev(op, kind, ok, live, arg, snap) ==
  [op |-> op, kind |-> kind, ok |-> ok, live |-> live, arg |-> arg, snap |-> snap,
   saved |-> NoFile, detail |-> NoDetail, download |-> <<>>]

\* a response arrives for request r of a mounted (live) or unmounted
\* instance; next are the requests its continuation issues
Settle(r, live, next) ==
  IF live
  THEN /\ BagIn(r, reqs)
       /\ reqs' = (reqs (-) One(r)) (+) SetToBag(next)
       /\ UNCHANGED orphans
  ELSE /\ BagIn(r, orphans)
       /\ orphans' = (orphans (-) One(r)) (+) SetToBag(next)
       /\ UNCHANGED reqs

(* ------------------------------------------------------------------ *)
(* App                                                                 *)
(* ------------------------------------------------------------------ *)
\* menuItems.find(item => item.id === currentView) || menuItems[0]: the id of
\* the menu item whose icon, label and description the header shows
getCurrentMenuItem ==
  IF \E i \in 1..Len(menuItems) : menuItems[i] = currentView
  THEN currentView ELSE menuItems[1]

ToggleMenu ==
  /\ isMenuOpen' = ~isMenuOpen
  /\ last' = Ev("toggleMenu", "", TRUE, TRUE, <<>>, <<>>)
  /\ UNCHANGED <<currentView, loading, message, currentCustomerId, formData,
                 viewVars, reqs, orphans, envVars, ageVars>>

CloseMenuOverlay ==
  /\ isMenuOpen
  /\ isMenuOpen' = FALSE
  /\ last' = Ev("closeMenu", "", TRUE, TRUE, <<>>, <<>>)
  /\ UNCHANGED <<currentView, loading, message, currentCustomerId, formData,
                 viewVars, reqs, orphans, envVars, ageVars>>

\* the menu buttons that are rendered
MenuOffers(view) ==
  \/ view \in MenuIds
  \/ view \in {"needs-analysis", "recommendations"} /\ Truthy(currentCustomerId)

\* handleViewChange aborting the customer creation in flight
handleViewChangeAborts(view) ==
  /\ MenuOffers(view)
  /\ currentView' = view
  /\ isMenuOpen' = FALSE
  /\ message' = NoMessage
  /\ loading' = FALSE
  /\ Reconcile(view, currentCustomerId, NotOwnedBy(reqs, "app"))
  /\ last' = Ev("handleViewChange", "", TRUE, TRUE, <<view>>, <<>>)
  /\ UNCHANGED <<currentCustomerId, envVars, ageVars>>

\* handleViewChange without setMessage(null)
handleViewChangeKeepsMessage(view) ==
  /\ MenuOffers(view)
  /\ currentView' = view
  /\ isMenuOpen' = FALSE
  /\ Reconcile(view, currentCustomerId, reqs)
  /\ last' = Ev("handleViewChange", "", TRUE, TRUE, <<view>>, <<>>)
  /\ UNCHANGED <<loading, message, currentCustomerId, envVars, ageVars>>

handleViewChange(view) ==
  /\ MenuOffers(view)
  /\ currentView' = view
  /\ isMenuOpen' = FALSE
  /\ message' = NoMessage
  /\ Reconcile(view, currentCustomerId, reqs)
  /\ last' = Ev("handleViewChange", "", TRUE, TRUE, <<view>>, <<>>)
  /\ UNCHANGED <<loading, currentCustomerId, envVars, ageVars>>

\* onBack of NeedsAnalysis, rendered in its error panel and in its content
handleBackToCustomer ==
  /\ Active("needs-analysis") /\ ~needs.loading
  /\ currentView' = "customer"
  /\ message' = NoMessage
  /\ Reconcile("customer", currentCustomerId, reqs)
  /\ last' = Ev("handleBackToCustomer", "", TRUE, TRUE, <<>>, <<>>)
  /\ UNCHANGED <<isMenuOpen, loading, currentCustomerId, envVars, ageVars>>

\* onBack of Recommendations
handleBackToNeedsAnalysis ==
  /\ Active("recommendations") /\ ~recs.loading
  /\ currentView' = "needs-analysis"
  /\ Reconcile("needs-analysis", currentCustomerId, reqs)
  /\ last' = Ev("handleBackToNeedsAnalysis", "", TRUE, TRUE, <<>>, <<>>)
  /\ UNCHANGED <<isMenuOpen, loading, message, currentCustomerId, envVars, ageVars>>

\* JSON.stringify of the request body: a field whose value is undefined is
\* left out, every other field is written with its value
JsonBody(customer) ==
  [f \in {g \in DOMAIN customer : ~(g = "age" /\ customer[g] = UndefinedAge)} |->
     customer[f]]

\* apiService.createCustomer with the name field blanked on the way
createCustomerBlanksName(customer) ==
  Req("createCustomer", <<JsonBody([customer EXCEPT !.name = ""])>>, <<>>)

\* apiService.createCustomer: POST /customers/ with the customer as its body
createCustomer(customer) == Req("createCustomer", <<JsonBody(customer)>>, <<>>)

handleCustomerSubmit(customer) ==
  /\ loading' = TRUE
  /\ message' = NoMessage
  /\ reqs' = reqs (+) One(createCustomer(customer))
  /\ UNCHANGED <<currentView, isMenuOpen, currentCustomerId, orphans>>

\* createCustomerOk without setCurrentView('needs-analysis')
createCustomerOkStays(r, id) ==
  /\ currentCustomerId' = id
  /\ message' = [type |-> "success",
                 text |-> "Customer saved successfully! Generating needs analysis..."]
  /\ currentView' = currentView
  /\ loading' = FALSE
  /\ Reconcile(currentView, id, reqs (-) One(r))
  /\ UNCHANGED isMenuOpen

createCustomerOk(r, id) ==
  /\ currentCustomerId' = id
  /\ message' = [type |-> "success",
                 text |-> "Customer saved successfully! Generating needs analysis..."]
  /\ currentView' = "needs-analysis"
  /\ loading' = FALSE
  /\ Reconcile("needs-analysis", id, reqs (-) One(r))
  /\ UNCHANGED isMenuOpen

\* the catch branch dropping the customer id held
createCustomerFailedForgets(r) ==
  /\ message' = [type |-> "error", text |-> "Failed to save customer. Please try again."]
  /\ loading' = FALSE
  /\ currentCustomerId' = NoId
  /\ Reconcile(currentView, NoId, reqs (-) One(r))
  /\ UNCHANGED <<currentView, isMenuOpen>>

createCustomerFailed(r) ==
  /\ message' = [type |-> "error", text |-> "Failed to save customer. Please try again."]
  /\ loading' = FALSE
  /\ reqs' = reqs (-) One(r)
  /\ UNCHANGED <<currentView, isMenuOpen, currentCustomerId, formData, viewVars, orphans>>

ResolveCreateCustomer(r, ok, id) ==
  /\ r.kind = "createCustomer" /\ BagIn(r, reqs)
  /\ IF ok THEN createCustomerOk(r, id) ELSE createCustomerFailed(r)
  /\ last' = Ev("resolve", "createCustomer", ok, TRUE, IF ok THEN <<id>> ELSE <<>>,
                <<currentView>>)
  /\ UNCHANGED <<envVars, ageVars>>

(* ------------------------------------------------------------------ *)
(* CustomerForm                                                        *)
(* ------------------------------------------------------------------ *)
TextValues == {"", "a"}

\* the dates the date input is given in the application specification:
\* none, a day before today and a day after it
DobChoices == {NoDate, <<BaseYear, 1, 1>>, <<BaseYear + YearSpan, MaxMonth, 2>>}

handleInputChange(name, value) ==
  /\ FormActive
  /\ formData' =
       IF name = "date_of_birth"
       THEN LET age == calculateAge(value, today, tzWest)
            IN [formData EXCEPT !.date_of_birth = value,
                                !.age = IF age = NullAge THEN UndefinedAge ELSE age]
       ELSE [formData EXCEPT ![name] = value]
  /\ formData' # formData
  /\ last' = Ev("handleInputChange", "", TRUE, TRUE, <<>>, <<>>)
  /\ UNCHANGED <<appVars, viewVars, reqs, orphans, envVars, ageVars>>

\* the test of handleSubmit without its last conjunct
WellFormedWithoutAge(draft) ==
  /\ draft.name # "" /\ draft.email # "" /\ draft.phone # ""
  /\ draft.date_of_birth # NoDate

WellFormed(draft) ==
  /\ draft.name # "" /\ draft.email # "" /\ draft.phone # ""
  /\ draft.date_of_birth # NoDate
  /\ draft.age # UndefinedAge

\* the submit button is disabled while App's loading flag is set
handleSubmit ==
  /\ FormActive
  /\ ~loading
  /\ IF WellFormed(formData)
     THEN handleCustomerSubmit(formData)
     ELSE UNCHANGED <<appVars, reqs, orphans>>
  /\ last' = Ev("handleSubmit", "", WellFormed(formData), TRUE, <<>>, <<>>)
  /\ UNCHANGED <<formData, viewVars, envVars, ageVars>>

(* ------------------------------------------------------------------ *)
(* AnalyticsDashboard                                                  *)
(* ------------------------------------------------------------------ *)
DashView == "analytics-dashboard"

\* what the component renders: its loading skeleton, its error panel or
\* its content
DashRender == IF dash.loading THEN "loading"
              ELSE IF dash.error # NoError THEN "error" ELSE "content"

\* fetchDashboardData reading the period of the render before the selection
fetchDashboardDataStalePeriod(period) ==
  /\ dash' = [dash EXCEPT !.loading = TRUE, !.error = NoError, !.selectedPeriod = period]
  /\ reqs' = reqs (+) One(Req("dashboard", <<dash.selectedPeriod>>, dash.metrics))
  /\ UNCHANGED <<appVars, formData, market, needs, recs, plist, cmp, pdf, infl,
                 orphans, envVars, ageVars>>

fetchDashboardData(period) ==
  /\ dash' = [dash EXCEPT !.loading = TRUE, !.error = NoError, !.selectedPeriod = period]
  /\ reqs' = reqs (+) One(Req("dashboard", <<period>>, dash.metrics))
  /\ UNCHANGED <<appVars, formData, market, needs, recs, plist, cmp, pdf, infl,
                 orphans, envVars, ageVars>>

\* onChange of the period select, and the effect on [selectedPeriod]
DashSelectPeriod(period) ==
  /\ Active(DashView) /\ DashRender = "content"
  /\ period # dash.selectedPeriod
  /\ fetchDashboardData(period)
  /\ last' = Ev("selectPeriod", "dashboard", TRUE, TRUE, <<>>, <<>>)

DashRefresh ==
  /\ Active(DashView) /\ DashRender = "content"
  /\ fetchDashboardData(dash.selectedPeriod)
  /\ last' = Ev("refresh", "dashboard", TRUE, TRUE, <<>>, <<>>)

DashRetry ==
  /\ Active(DashView) /\ DashRender = "error"
  /\ fetchDashboardData(dash.selectedPeriod)
  /\ last' = Ev("retry", "dashboard", TRUE, TRUE, <<>>, <<>>)

DashResolve(r, live, ok, d) ==
  /\ r.kind = "dashboard"
  /\ Settle(r, live, {})
  /\ dash' = IF ~live THEN dash
             ELSE IF ok THEN [dash EXCEPT !.metrics = <<r.arg[1], d>>, !.loading = FALSE]
             ELSE [dash EXCEPT !.error = "Failed to fetch dashboard data. Please try again.",
                               !.loading = FALSE]
  /\ last' = Ev("resolve", r.kind, ok, live, r.arg, r.snap)
  /\ UNCHANGED <<appVars, formData, market, needs, recs, plist, cmp, pdf, infl,
                 envVars, ageVars>>

(* ------------------------------------------------------------------ *)
(* MarketData                                                          *)
(* ------------------------------------------------------------------ *)
MarketView == "market-data"

MarketRender == IF market.loading THEN "loading"
                ELSE IF market.error # NoError THEN "error" ELSE "content"

MarketSnap == <<market.marketData, market.trends, market.insights>>

fetchMarketData ==
  /\ market' = [market EXCEPT !.loading = TRUE, !.error = NoError]
  /\ reqs' = reqs (+) One(Req("market.latest", <<>>, MarketSnap))
  /\ UNCHANGED <<appVars, formData, dash, needs, recs, plist, cmp, pdf, infl,
                 orphans, envVars, ageVars>>

\* the Refresh button of the content; the error panel has no control
MarketRefresh ==
  /\ Active(MarketView) /\ MarketRender = "content"
  /\ fetchMarketData
  /\ last' = Ev("refresh", "market.latest", TRUE, TRUE, <<>>, <<>>)

\* fetchMarketData catching the failure of each request on its own
MarketNextKeepsGoing(r, ok) ==
  IF r.kind = "market.latest" THEN {Req("market.trends", <<>>, r.snap)}
  ELSE IF r.kind = "market.trends" THEN {Req("market.insights", <<>>, r.snap)}
  ELSE {}

\* the request fetchMarketData goes on to after a response to r
MarketNext(r, ok) ==
  IF ~ok THEN {}
  ELSE IF r.kind = "market.latest" THEN {Req("market.trends", <<>>, r.snap)}
  ELSE IF r.kind = "market.trends" THEN {Req("market.insights", <<>>, r.snap)}
  ELSE {}

\* fetchMarketData without its finally block: a failure sets the error and
\* leaves the loading flag set
MarketResolveStaysBusy(r, live, ok, d) ==
  /\ r.kind \in {"market.latest", "market.trends", "market.insights"}
  /\ Settle(r, live, MarketNext(r, ok))
  /\ market' =
       IF ~live THEN market
       ELSE IF ~ok
       THEN [market EXCEPT !.error = "Failed to fetch market data. Please try again later."]
       ELSE IF r.kind = "market.latest" THEN [market EXCEPT !.marketData = d]
       ELSE IF r.kind = "market.trends" THEN [market EXCEPT !.trends = d]
       ELSE [market EXCEPT !.insights = d, !.loading = FALSE]
  /\ last' = Ev("resolve", r.kind, ok, live, r.arg, r.snap)
  /\ UNCHANGED <<appVars, formData, dash, needs, recs, plist, cmp, pdf, infl,
                 envVars, ageVars>>

MarketResolve(r, live, ok, d) ==
  /\ r.kind \in {"market.latest", "market.trends", "market.insights"}
  /\ Settle(r, live, MarketNext(r, ok))
  /\ market' =
       IF ~live THEN market
       ELSE IF ~ok
       THEN [market EXCEPT !.error = "Failed to fetch market data. Please try again later.",
                           !.loading = FALSE]
       ELSE IF r.kind = "market.latest" THEN [market EXCEPT !.marketData = d]
       ELSE IF r.kind = "market.trends" THEN [market EXCEPT !.trends = d]
       ELSE [market EXCEPT !.insights = d, !.loading = FALSE]
  /\ last' = Ev("resolve", r.kind, ok, live, r.arg, r.snap)
  /\ UNCHANGED <<appVars, formData, dash, needs, recs, plist, cmp, pdf, infl,
                 envVars, ageVars>>

(* ------------------------------------------------------------------ *)
(* NeedsAnalysis                                                       *)
(* ------------------------------------------------------------------ *)
NeedsView == "needs-analysis"

NeedsRender == IF needs.loading THEN "loading"
               ELSE IF needs.error # NoError \/ needs.data = NoData THEN "error"
               ELSE "content"

\* createAndFetchNeedsAnalysis giving up when createNeedsAnalysis throws
NeedsNextGivesUp(r, ok) ==
  IF r.kind = "needs.getCustomer" /\ ok THEN {Req("needs.create", r.arg, r.snap)}
  ELSE IF r.kind = "needs.create" /\ ok THEN {Req("needs.enhanced", r.arg, r.snap)}
  ELSE {}

\* createAndFetchNeedsAnalysis after a response to r: createNeedsAnalysis reads
\* the customer and posts the analysis; whatever it throws is ignored and the
\* enhanced analysis is fetched
NeedsNext(r, ok) ==
  IF r.kind = "needs.getCustomer" /\ ok THEN {Req("needs.create", r.arg, r.snap)}
  ELSE IF r.kind \in {"needs.getCustomer", "needs.create"}
  THEN {Req("needs.enhanced", r.arg, r.snap)}
  ELSE {}

NeedsResolve(r, live, ok, d) ==
  /\ r.kind \in {"needs.getCustomer", "needs.create", "needs.enhanced"}
  /\ Settle(r, live, NeedsNext(r, ok))
  /\ needs' =
       IF ~live \/ r.kind # "needs.enhanced" THEN needs
       ELSE IF ok THEN [needs EXCEPT !.data = d, !.loading = FALSE]
       ELSE [needs EXCEPT !.error = "Failed to fetch needs analysis", !.loading = FALSE]
  /\ last' = Ev("resolve", r.kind, ok, live, r.arg, r.snap)
  /\ UNCHANGED <<appVars, formData, dash, market, recs, plist, cmp, pdf, infl,
                 envVars, ageVars>>

(* ------------------------------------------------------------------ *)
(* Recommendations                                                     *)
(* ------------------------------------------------------------------ *)
RecsView == "recommendations"

RecsRender == IF recs.loading THEN "loading"
              ELSE IF recs.error # NoError THEN "error" ELSE "content"

RecsResolve(r, live, ok, d) ==
  /\ r.kind = "recommendations"
  /\ Settle(r, live, {})
  /\ recs' =
       IF ~live THEN recs
       ELSE IF ok THEN [recs EXCEPT !.recommendations = d, !.loading = FALSE]
       ELSE [recs EXCEPT !.error = "Failed to fetch recommendations", !.loading = FALSE]
  /\ last' = Ev("resolve", r.kind, ok, live, r.arg, r.snap)
  /\ UNCHANGED <<appVars, formData, dash, market, needs, plist, cmp, pdf, infl,
                 envVars, ageVars>>

(* ------------------------------------------------------------------ *)
(* ProductsList                                                        *)
(* ------------------------------------------------------------------ *)
PlistView == "products"

PlistRender == IF plist.loading THEN "loading"
               ELSE IF plist.error # NoError THEN "error" ELSE "content"

PlistResolve(r, live, ok, d) ==
  /\ r.kind = "products"
  /\ Settle(r, live, {})
  /\ plist' =
       IF ~live THEN plist
       ELSE IF ok THEN [plist EXCEPT !.products = d, !.loading = FALSE]
       ELSE [plist EXCEPT !.error = "Failed to fetch products", !.loading = FALSE]
  /\ last' = Ev("resolve", r.kind, ok, live, r.arg, r.snap)
  /\ UNCHANGED <<appVars, formData, dash, market, needs, recs, cmp, pdf, infl,
                 envVars, ageVars>>

(* ------------------------------------------------------------------ *)
(* ProductComparison                                                   *)
(* ------------------------------------------------------------------ *)
CmpView == "product-comparison"

CmpSnap(c) == <<c.products, c.comparisonResult>>

\* setSelectedProducts: drop the id when it is selected, append it otherwise
Toggle(sel, productId) ==
  IF \E i \in 1..Len(sel) : sel[i] = productId
  THEN SelectSeq(sel, LAMBDA x : x # productId)
  ELSE Append(sel, productId)

handleProductSelection(productId) ==
  /\ Active(CmpView)
  /\ productId \in 1..cmp.products
  /\ cmp' = [cmp EXCEPT !.selectedProducts = Toggle(cmp.selectedProducts, productId)]
  /\ last' = Ev("handleProductSelection", "", TRUE, TRUE, <<>>, <<>>)
  /\ UNCHANGED <<appVars, formData, dash, market, needs, recs, plist, pdf, infl,
                 reqs, orphans, envVars, ageVars>>

\* handleCompare without the check of the selection
handleCompareUnchecked(c) ==
  [st |-> [c EXCEPT !.loading = TRUE, !.error = NoError],
   issued |-> {Req("cmp.compare", c.selectedProducts, <<c.products, c.comparisonResult>>)}]

\* handleCompare on component state c: the state it leaves and the requests
\* it issues
handleCompare(c) ==
  IF Len(c.selectedProducts) < 2
  THEN [st |-> [c EXCEPT !.error = "Please select at least 2 products to compare"],
        issued |-> {}]
  ELSE [st |-> [c EXCEPT !.loading = TRUE, !.error = NoError],
        issued |-> {Req("cmp.compare", c.selectedProducts, CmpSnap(c))}]

\* disabled={loading || selectedProducts.length < 2}
CompareDisabled(c) == c.loading \/ Len(c.selectedProducts) < 2

CompareClick ==
  /\ Active(CmpView)
  /\ ~CompareDisabled(cmp)
  /\ cmp' = handleCompare(cmp).st
  /\ reqs' = reqs (+) SetToBag(handleCompare(cmp).issued)
  /\ last' = Ev("handleCompare", "cmp.compare", TRUE, TRUE, <<>>, <<>>)
  /\ UNCHANGED <<appVars, formData, dash, market, needs, recs, plist, pdf, infl,
                 orphans, envVars, ageVars>>

\* fetchProducts (n products arrive) and the continuation of handleCompare
CmpResolve(r, live, ok, d, n) ==
  /\ r.kind \in {"cmp.products", "cmp.compare"}
  /\ Settle(r, live, {})
  /\ cmp' =
       IF ~live THEN cmp
       ELSE IF r.kind = "cmp.products"
       THEN (IF ok THEN [cmp EXCEPT !.products = n]
             ELSE [cmp EXCEPT !.error = "Failed to fetch products"])
       ELSE (IF ok THEN [cmp EXCEPT !.comparisonResult = d, !.loading = FALSE]
             ELSE [cmp EXCEPT !.error = "Failed to compare products", !.loading = FALSE])
  /\ last' = Ev("resolve", r.kind, ok, live, r.arg, r.snap)
  /\ UNCHANGED <<appVars, formData, dash, market, needs, recs, plist, pdf, infl,
                 envVars, ageVars>>

(* ------------------------------------------------------------------ *)
(* PDFReports                                                          *)
(* ------------------------------------------------------------------ *)
PdfView == "pdf-reports"

PdfSnap(c) == <<c.customers, c.selectedCustomer>>

PdfSelectCustomer(id) ==
  /\ Active(PdfView)
  /\ id \in 1..pdf.customers
  /\ pdf' = [pdf EXCEPT !.selectedCustomer = id]
  /\ last' = Ev("setSelectedCustomer", "", TRUE, TRUE, <<>>, <<>>)
  /\ UNCHANGED <<appVars, formData, dash, market, needs, recs, plist, cmp, infl,
                 reqs, orphans, envVars, ageVars>>

ReportTypes == {"needs-analysis", "comprehensive"}

\* generatePDF without setError(null)
generatePDFKeepsError(reportType) ==
  /\ Active(PdfView)
  /\ Truthy(pdf.selectedCustomer)
  /\ ~pdf.loading
  /\ pdf' = [pdf EXCEPT !.loading = TRUE, !.success = ""]
  /\ reqs' = reqs (+) One(Req("pdf." \o reportType, <<pdf.selectedCustomer>>, PdfSnap(pdf)))
  /\ last' = Ev("generatePDF", "pdf." \o reportType, TRUE, TRUE, <<>>, <<>>)
  /\ UNCHANGED <<appVars, formData, dash, market, needs, recs, plist, cmp, infl,
                 orphans, envVars, ageVars>>

\* the two Generate PDF buttons: rendered once a customer is selected,
\* disabled while loading
generatePDF(reportType) ==
  /\ Active(PdfView)
  /\ Truthy(pdf.selectedCustomer)
  /\ ~pdf.loading
  /\ pdf' = [pdf EXCEPT !.loading = TRUE, !.error = NoError, !.success = ""]
  /\ reqs' = reqs (+) One(Req("pdf." \o reportType, <<pdf.selectedCustomer>>, PdfSnap(pdf)))
  /\ last' = Ev("generatePDF", "pdf." \o reportType, TRUE, TRUE, <<>>, <<>>)
  /\ UNCHANGED <<appVars, formData, dash, market, needs, recs, plist, cmp, infl,
                 orphans, envVars, ageVars>>

SuccessText(kind) ==
  IF kind = "pdf.needs-analysis" THEN "needs analysis PDF generated successfully!"
  ELSE "comprehensive PDF generated successfully!"

\* the continuation of fetchCustomers: n customers arrive
PdfCustomersResolve(r, live, ok, n) ==
  /\ r.kind = "pdf.customers"
  /\ Settle(r, live, {})
  /\ pdf' =
       IF ~live THEN pdf
       ELSE IF ok THEN [pdf EXCEPT !.customers = n, !.loading = FALSE]
       ELSE [pdf EXCEPT !.error = "Failed to fetch customers", !.loading = FALSE]
  /\ last' = Ev("resolve", r.kind, ok, live, r.arg, r.snap)
  /\ UNCHANGED <<appVars, formData, dash, market, needs, recs, plist, cmp, infl,
                 envVars, ageVars>>

\* the name the backend holds for customer id, a sequence of characters
NameOf(id) ==
  IF id = 1 THEN <<"R", " ", " ", "S">>
  ELSE IF id = 2 THEN <<"\t", "K", " ">>
  ELSE <<"M">>

IsSpace(ch) == ch \in {" ", "\t"}

RECURSIVE SkipSpaces(_)
SkipSpaces(s) ==
  IF s # <<>> /\ IsSpace(Head(s)) THEN SkipSpaces(Tail(s)) ELSE s

\* name.replace(/\s/g, '_'): every whitespace character on its own
ReplaceEachSpace(s) == [i \in 1..Len(s) |-> IF IsSpace(s[i]) THEN "_" ELSE s[i]]

\* name.replace(/\s+/g, '_'): left to right, each longest run of whitespace
RECURSIVE ReplaceSpaceRuns(_)
ReplaceSpaceRuns(s) ==
  IF s = <<>> THEN <<>>
  ELSE IF IsSpace(Head(s)) THEN <<"_">> \o ReplaceSpaceRuns(SkipSpaces(Tail(s)))
  ELSE <<Head(s)>> \o ReplaceSpaceRuns(Tail(s))

DigitChars == <<"0", "1", "2", "3", "4", "5", "6", "7", "8", "9">>

\* n in decimal, zero-padded to width characters
RECURSIVE Pad(_, _)
Pad(n, width) ==
  IF width = 0 THEN <<>>
  ELSE Pad(n \div 10, width - 1) \o <<DigitChars[(n % 10) + 1]>>

\* new Date().toISOString().split('T')[0] at an instant whose UTC date is dt
toISODate(dt) == Pad(dt[1], 4) \o <<"-">> \o Pad(dt[2], 2) \o <<"-">> \o Pad(dt[3], 2)

\* the UTC calendar date of the present instant: the local date, or its
\* neighbour on the other side of midnight
UtcDates == {today, IF tzWest THEN NextDay(today) ELSE PrevDay(today)}

\* link.download: customers and selectedCustomer are the values the click
\* closed over (n customers, ids 1..n), utc is the UTC date of the response
FileName(kind, n, selectedCustomer, utc) ==
  LET customerName == IF selectedCustomer \in 1..n
                      THEN ReplaceSpaceRuns(NameOf(selectedCustomer))
                      ELSE <<"customer">>
      prefix == IF kind = "pdf.needs-analysis" THEN "needs_analysis"
                ELSE "comprehensive_report"
  IN <<prefix, "_">> \o customerName \o <<"_">> \o toISODate(utc) \o <<".pdf">>

\* the details a failing PDF endpoint answers with
Details == {NoDetail, "Customer not found"}

\* err.response.data of a failed request whose JSON body carries detail: axios
\* hands the body over in the requested responseType, and a Blob has no
\* member named detail
ResponseData(responseType, detail) ==
  IF responseType = "blob" THEN [type |-> "Blob"]
  ELSE [type |-> "object", detail |-> detail]

\* err.response?.data?.detail
DetailOf(data) == IF "detail" \in DOMAIN data THEN data.detail ELSE NoDetail

\* err.response?.data?.detail || 'Failed to generate PDF', for the two
\* requests of generatePDF (responseType: 'blob')
PdfErrorText(detail) ==
  LET d == DetailOf(ResponseData("blob", detail))
  IN IF d # NoDetail THEN d ELSE "Failed to generate PDF"

\* the continuation of generatePDF clearing the selection once the file is saved
PdfGenerateResolveDeselects(r, live, ok, detail, utc) ==
  /\ r.kind \in {"pdf.needs-analysis", "pdf.comprehensive"}
  /\ ok => detail = NoDetail
  /\ ~ok => utc = today
  /\ Settle(r, live, {})
  /\ pdf' =
       IF ~live THEN pdf
       ELSE IF ok THEN [pdf EXCEPT !.success = SuccessText(r.kind), !.loading = FALSE,
                                   !.selectedCustomer = NoId]
       ELSE [pdf EXCEPT !.error = PdfErrorText(detail), !.loading = FALSE]
  /\ last' = [Ev("resolve", r.kind, ok, live, r.arg, r.snap)
                EXCEPT !.saved = IF ok THEN <<r.kind, r.arg[1]>> ELSE NoFile,
                       !.download = IF ok THEN FileName(r.kind, r.snap[1], r.snap[2], utc)
                                    ELSE <<>>,
                       !.detail = detail]
  /\ UNCHANGED <<appVars, formData, dash, market, needs, recs, plist, cmp, infl,
                 envVars, ageVars>>

\* the continuation of generatePDF: on success the blob is saved through a
\* temporary link, whether or not the component is still mounted
PdfGenerateResolve(r, live, ok, detail, utc) ==
  /\ r.kind \in {"pdf.needs-analysis", "pdf.comprehensive"}
  /\ ok => detail = NoDetail
  /\ ~ok => utc = today
  /\ Settle(r, live, {})
  /\ pdf' =
       IF ~live THEN pdf
       ELSE IF ok THEN [pdf EXCEPT !.success = SuccessText(r.kind), !.loading = FALSE]
       ELSE [pdf EXCEPT !.error = PdfErrorText(detail), !.loading = FALSE]
  /\ last' = [Ev("resolve", r.kind, ok, live, r.arg, r.snap)
                EXCEPT !.saved = IF ok THEN <<r.kind, r.arg[1]>> ELSE NoFile,
                       !.download = IF ok THEN FileName(r.kind, r.snap[1], r.snap[2], utc)
                                    ELSE <<>>,
                       !.detail = detail]
  /\ UNCHANGED <<appVars, formData, dash, market, needs, recs, plist, cmp, infl,
                 envVars, ageVars>>

(* ------------------------------------------------------------------ *)
(* The share controls                                                  *)
(* ------------------------------------------------------------------ *)
\* canShare: navigator.share is defined in this browser

\* the ShareButton of PDFReports is rendered once a customer is selected
ShareButtonMounted == Active(PdfView) /\ Truthy(pdf.selectedCustomer)

\* {!navigator.share && showDropdown && (...)}
ShareButtonListShown == ShareButtonMounted /\ ~canShare /\ pdf.showDropdown

\* ShareButton.handleShare
ShareButtonClick ==
  /\ ShareButtonMounted
  /\ pdf' = IF canShare THEN pdf ELSE [pdf EXCEPT !.showDropdown = ~pdf.showDropdown]
  /\ last' = Ev("handleShare", "ShareButton", TRUE, TRUE,
                IF canShare THEN <<"navigator.share">> ELSE <<>>, <<>>)
  /\ UNCHANGED <<appVars, formData, dash, market, needs, recs, plist, cmp, infl,
                 reqs, orphans, envVars, ageVars>>

\* ShareButton.handleCopy: the list is closed after the awaited clipboard
\* write, which the browser may refuse (ok = FALSE)
handleCopy(ok) ==
  /\ ShareButtonListShown
  /\ pdf' = IF ok THEN [pdf EXCEPT !.showDropdown = FALSE] ELSE pdf
  /\ last' = Ev("handleCopy", "ShareButton", ok, TRUE, <<>>, <<>>)
  /\ UNCHANGED <<appVars, formData, dash, market, needs, recs, plist, cmp, infl,
                 reqs, orphans, envVars, ageVars>>

\* each recommendation card has a Share button of its own
RecsShareMounted ==
  Active(RecsView) /\ RecsRender = "content" /\ recs.recommendations # NoData

\* {!navigator.share && (...)}: the list is in the tree whenever native sharing
\* is missing, and is made visible by the pointer being over the control
\* (group-hover), as it is when the button is clicked
RecsListShown == RecsShareMounted /\ ~canShare

\* Recommendations.handleShare
RecsShareClick ==
  /\ RecsShareMounted
  /\ last' = Ev("handleShare", "Recommendations", TRUE, TRUE,
                IF canShare THEN <<"navigator.share">> ELSE <<>>, <<>>)
  /\ UNCHANGED <<appVars, formData, viewVars, reqs, orphans, envVars, ageVars>>

\* Copy Link of a recommendation card: the clipboard is written, nothing else
RecsCopyLink ==
  /\ RecsListShown
  /\ last' = Ev("handleCopy", "Recommendations", TRUE, TRUE, <<>>, <<>>)
  /\ UNCHANGED <<appVars, formData, viewVars, reqs, orphans, envVars, ageVars>>

(* ------------------------------------------------------------------ *)
(* InflationCalculator                                                 *)
(* ------------------------------------------------------------------ *)
InflView == "inflation-calculator"

\* handleSubmit of the calculator form; its button is disabled while loading
InflSubmit ==
  /\ Active(InflView)
  /\ ~infl.loading
  /\ infl' = [infl EXCEPT !.loading = TRUE, !.error = NoError]
  /\ reqs' = reqs (+) One(Req("calculator", <<>>, <<infl.result>>))
  /\ last' = Ev("handleSubmit", "calculator", TRUE, TRUE, <<>>, <<>>)
  /\ UNCHANGED <<appVars, formData, dash, market, needs, recs, plist, cmp, pdf,
                 orphans, envVars, ageVars>>

InflResolve(r, live, ok, d) ==
  /\ r.kind = "calculator"
  /\ Settle(r, live, {})
  /\ infl' =
       IF ~live THEN infl
       ELSE IF ok THEN [infl EXCEPT !.result = d, !.loading = FALSE]
       ELSE [infl EXCEPT
               !.error = "Failed to calculate inflation-adjusted returns. Please try again.",
               !.loading = FALSE]
  /\ last' = Ev("resolve", r.kind, ok, live, r.arg, r.snap)
  /\ UNCHANGED <<appVars, formData, dash, market, needs, recs, plist, cmp, pdf,
                 envVars, ageVars>>

(* ------------------------------------------------------------------ *)
(* What the views have on screen                                       *)
(* ------------------------------------------------------------------ *)
\* ProductComparison, PDFReports and InflationCalculator return one tree: the
\* busy label of the button, the error box and the loaded data are each
\* rendered on a condition of their own
CmpShown == (IF cmp.loading THEN {"loading"} ELSE {})
              \cup (IF cmp.error # NoError THEN {"error"} ELSE {})
              \cup (IF cmp.comparisonResult # NoData THEN {"content"} ELSE {})

PdfShown == (IF pdf.loading /\ Truthy(pdf.selectedCustomer) THEN {"loading"} ELSE {})
              \cup (IF pdf.error # NoError THEN {"error"} ELSE {})
              \cup (IF pdf.customers > 0 THEN {"content"} ELSE {})

InflShown == (IF infl.loading THEN {"loading"} ELSE {})
               \cup (IF infl.error # NoError THEN {"error"} ELSE {})
               \cup (IF infl.result # NoData THEN {"content"} ELSE {})

\* which of the loading indicator, the error message and the loaded content
\* view v renders
Shown(v) ==
  CASE v = DashView -> {DashRender}
    [] v = MarketView -> {MarketRender}
    [] v = NeedsView -> {NeedsRender}
    [] v = RecsView -> {RecsRender}
    [] v = PlistView -> {PlistRender}
    [] v = CmpView -> CmpShown
    [] v = PdfView -> PdfShown
    [] v = InflView -> InflShown

\* the data variables of view v
DataOf(v) ==
  CASE v = DashView -> dash.metrics
    [] v = MarketView -> MarketSnap
    [] v = NeedsView -> <<needs.data>>
    [] v = RecsView -> <<recs.recommendations>>
    [] v = PlistView -> <<plist.products>>
    [] v = CmpView -> CmpSnap(cmp)
    [] v = PdfView -> <<pdf.customers>>
    [] v = InflView -> <<infl.result>>

\* view v, showing an error, renders an enabled control whose handler issues
\* the failed request again: the Retry button of the dashboard, and in the
\* views that keep their form on screen the button that started the request.
\* The error panel of MarketData has no control, those of NeedsAnalysis and
\* Recommendations have Go Back alone, the Retry button of ProductsList
\* reloads the page, and the lists of ProductComparison and PDFReports are
\* fetched on mount alone.
RetryOffered(v) ==
  CASE v = DashView -> TRUE
    [] v = CmpView -> cmp.error = "Failed to compare products" /\ ~CompareDisabled(cmp)
    [] v = PdfView -> /\ pdf.error = "Failed to generate PDF"
                      /\ Truthy(pdf.selectedCustomer) /\ ~pdf.loading
    [] v = InflView -> ~infl.loading
    [] OTHER -> FALSE

(* ------------------------------------------------------------------ *)
(* The application                                                     *)
(* ------------------------------------------------------------------ *)
NotComputed == -3

NoEvent == [op |-> "init", kind |-> "", ok |-> TRUE, live |-> TRUE, arg |-> <<>>,
            snap |-> <<>>, saved |-> NoFile, detail |-> NoDetail, download |-> <<>>]

\* the page as loaded: App on the dashboard, whose mount effect has run
AppInit ==
  /\ currentView = "analytics-dashboard"
  /\ isMenuOpen = FALSE
  /\ loading = FALSE
  /\ message = NoMessage
  /\ currentCustomerId = NoId
  /\ formData = formInit
  /\ dash = dashInit /\ market = marketInit /\ needs = needsInit /\ recs = recsInit
  /\ plist = plistInit /\ cmp = cmpInit /\ pdf = pdfInit /\ infl = inflInit
  /\ reqs = SetToBag(MountReqs("analytics-dashboard", NoId))
  /\ orphans = EmptyBag
  /\ last = NoEvent

Today == <<BaseYear + YearSpan, MaxMonth, 1>>

\* the views whose source is in the repository
FocusViews == {"analytics-dashboard", "market-data", "needs-analysis", "recommendations",
               "products", "product-comparison", "pdf-reports", "inflation-calculator"}

Init ==
  /\ focus \in FocusViews
  /\ AppInit
  /\ today = Today /\ tzWest = FALSE /\ canShare = TRUE
  /\ dobArg = NoDate /\ ageResult = NotComputed

\* the Retry button of the ProductsList error panel: window.location.reload()
\* loads the page again, which abandons every request in flight
PlistReload ==
  /\ Active(PlistView) /\ PlistRender = "error"
  /\ currentView' = "analytics-dashboard"
  /\ isMenuOpen' = FALSE
  /\ loading' = FALSE
  /\ message' = NoMessage
  /\ currentCustomerId' = NoId
  /\ formData' = formInit
  /\ dash' = dashInit /\ market' = marketInit /\ needs' = needsInit /\ recs' = recsInit
  /\ plist' = plistInit /\ cmp' = cmpInit /\ pdf' = pdfInit /\ infl' = inflInit
  /\ reqs' = SetToBag(MountReqs("analytics-dashboard", NoId))
  /\ orphans' = EmptyBag
  /\ last' = Ev("reload", "", TRUE, TRUE, <<>>, <<>>)
  /\ UNCHANGED <<envVars, ageVars>>

AllReqs == DOMAIN reqs \cup DOMAIN orphans

\* the bodies a response can bring: data is read only from a successful
\* response that reaches a mounted view, one body stands for the others
Payload(live, ok) == IF live /\ ok THEN Data ELSE {1}

\* likewise for a response that is a list of up to max entries
Counted(live, ok, max) == IF live /\ ok THEN 0..max ELSE {0}

Next ==
  \/ ToggleMenu
  \/ CloseMenuOverlay
  \/ \E view \in ViewType : handleViewChange(view)
  \/ handleBackToCustomer
  \/ handleBackToNeedsAnalysis
  \/ \E name \in {"name", "email", "phone"}, value \in TextValues :
       handleInputChange(name, value)
  \/ \E value \in DobChoices : handleInputChange("date_of_birth", value)
  \/ handleSubmit
  \/ \E r \in DOMAIN reqs, ok \in BOOLEAN, id \in 0..MaxId : ResolveCreateCustomer(r, ok, id)
  \/ \E period \in 1..Len(Periods) : DashSelectPeriod(period)
  \/ DashRefresh
  \/ DashRetry
  \/ MarketRefresh
  \/ PlistReload
  \/ \E productId \in 1..MaxProducts : handleProductSelection(productId)
  \/ CompareClick
  \/ \E id \in 1..MaxCustomers : PdfSelectCustomer(id)
  \/ \E reportType \in ReportTypes : generatePDF(reportType)
  \/ InflSubmit
  \/ \E r \in AllReqs, live \in BOOLEAN, ok \in BOOLEAN : \E d \in Payload(live, ok) :
       \/ DashResolve(r, live, ok, d)
       \/ MarketResolve(r, live, ok, d)
       \/ NeedsResolve(r, live, ok, d)
       \/ RecsResolve(r, live, ok, d)
       \/ PlistResolve(r, live, ok, d)
       \/ InflResolve(r, live, ok, d)
  \/ \E r \in AllReqs, live \in BOOLEAN, ok \in BOOLEAN :
       \E d \in Payload(live, ok), n \in Counted(live, ok, MaxProducts) :
         CmpResolve(r, live, ok, d, n)
  \/ \E r \in AllReqs, live \in BOOLEAN, ok \in BOOLEAN :
       \E n \in Counted(live, ok, MaxCustomers) : PdfCustomersResolve(r, live, ok, n)
  \/ \E r \in AllReqs, live \in BOOLEAN, ok \in BOOLEAN, detail \in Details, utc \in UtcDates :
       PdfGenerateResolve(r, live, ok, detail, utc)

Spec == Init /\ [][Next]_vars

(* ------------------------------------------------------------------ *)
(* calculateAge on its own: a birth date, a current date and a time    *)
(* zone are drawn, and the function is applied to them                 *)
(* ------------------------------------------------------------------ *)
InitAge ==
  /\ focus = "analytics-dashboard"
  /\ AppInit
  /\ today \in Dates /\ tzWest \in BOOLEAN /\ canShare = TRUE
  /\ dobArg \in Dates \cup {NoDate} /\ ageResult = NotComputed

ComputeAge ==
  /\ ageResult = NotComputed
  /\ ageResult' = calculateAge(dobArg, today, tzWest)
  /\ UNCHANGED <<appVars, formData, viewVars, reqs, orphans, envVars, dobArg, last>>

NextAge == ComputeAge

SpecAge == InitAge /\ [][NextAge]_vars

(* ------------------------------------------------------------------ *)
(* The share controls with the views that mount them: PDFReports with  *)
(* its customers, Recommendations with the customer form that leads to *)
(* it, in a browser with and without native sharing.  (Spec leaves the *)
(* share controls alone: they read and write no state of the views.)   *)
(* ------------------------------------------------------------------ *)
InitShare ==
  /\ focus \in {PdfView, RecsView}
  /\ AppInit
  /\ today = Today /\ tzWest = FALSE /\ canShare \in BOOLEAN
  /\ dobArg = NoDate /\ ageResult = NotComputed

NextShare ==
  \/ \E view \in ViewType : handleViewChange(view)
  \/ handleBackToNeedsAnalysis
  \/ \E name \in {"name", "email", "phone"}, value \in TextValues :
       handleInputChange(name, value)
  \/ \E value \in DobChoices : handleInputChange("date_of_birth", value)
  \/ handleSubmit
  \/ \E r \in DOMAIN reqs, ok \in BOOLEAN, id \in 0..MaxId : ResolveCreateCustomer(r, ok, id)
  \/ \E r \in AllReqs, live \in BOOLEAN, ok \in BOOLEAN, d \in Data :
       RecsResolve(r, live, ok, d)
  \/ \E r \in AllReqs, live \in BOOLEAN, ok \in BOOLEAN, n \in 0..MaxCustomers :
       PdfCustomersResolve(r, live, ok, n)
  \/ \E id \in 1..MaxCustomers : PdfSelectCustomer(id)
  \/ ShareButtonClick
  \/ \E ok \in BOOLEAN : handleCopy(ok)
  \/ RecsShareClick
  \/ RecsCopyLink

SpecShare == InitShare /\ [][NextShare]_vars

(* ------------------------------------------------------------------ *)
(* The customer form with the root component and the view a saved      *)
(* customer leads to, in a browser east or west of UTC                 *)
(* ------------------------------------------------------------------ *)
InitForm ==
  /\ focus = NeedsView
  /\ AppInit
  /\ today = Today /\ tzWest \in BOOLEAN /\ canShare = TRUE
  /\ dobArg = NoDate /\ ageResult = NotComputed

NextForm ==
  \/ \E view \in ViewType : handleViewChange(view)
  \/ handleBackToCustomer
  \/ \E name \in {"name", "email", "phone"}, value \in TextValues :
       handleInputChange(name, value)
  \/ \E value \in DobChoices : handleInputChange("date_of_birth", value)
  \/ handleSubmit
  \/ \E r \in DOMAIN reqs, ok \in BOOLEAN, id \in 0..MaxId : ResolveCreateCustomer(r, ok, id)
  \/ \E r \in AllReqs, live \in BOOLEAN, ok \in BOOLEAN, d \in Data :
       NeedsResolve(r, live, ok, d)

SpecForm == InitForm /\ [][NextForm]_vars

(* ------------------------------------------------------------------ *)
(* The application with a backend that answers: a request of a mounted *)
(* view, and a customer creation, that stays in flight is resolved     *)
(* ------------------------------------------------------------------ *)
\* a response reaches the mounted view that is waiting for it
ViewResponse ==
  \E r \in DOMAIN reqs, ok \in BOOLEAN :
    \/ \E d \in Payload(TRUE, ok) :
         \/ DashResolve(r, TRUE, ok, d)
         \/ MarketResolve(r, TRUE, ok, d)
         \/ NeedsResolve(r, TRUE, ok, d)
         \/ RecsResolve(r, TRUE, ok, d)
         \/ PlistResolve(r, TRUE, ok, d)
         \/ InflResolve(r, TRUE, ok, d)
    \/ \E d \in Payload(TRUE, ok), n \in Counted(TRUE, ok, MaxProducts) :
         CmpResolve(r, TRUE, ok, d, n)
    \/ \E n \in Counted(TRUE, ok, MaxCustomers) : PdfCustomersResolve(r, TRUE, ok, n)
    \/ \E detail \in Details, utc \in UtcDates : PdfGenerateResolve(r, TRUE, ok, detail, utc)

\* the response to a customer creation reaches App
CreateResponse ==
  \E r \in DOMAIN reqs, ok \in BOOLEAN, id \in 0..MaxId : ResolveCreateCustomer(r, ok, id)

SpecLive == Spec /\ WF_vars(ViewResponse) /\ WF_vars(CreateResponse)

(* ------------------------------------------------------------------ *)
(* Properties                                                          *)
(* ------------------------------------------------------------------ *)
CreateKinds == {"createCustomer"}
PdfKinds == {"pdf.needs-analysis", "pdf.comprehensive"}

\* C1: submitting a well-formed draft leaves exactly one customer-creation
\* request in flight, and when the request has succeeded the current view is
\* 'needs-analysis' and the current customer id is the id the backend returned
SubmitCreatesCustomer ==
  /\ (last.op = "handleSubmit" /\ WellFormed(formData)
        => InFlight(CreateKinds) = 1 /\ loading)
  /\ (~loading => InFlight(CreateKinds) = 0)
  /\ (last.op = "resolve" /\ last.kind = "createCustomer" /\ last.ok
        => currentView = "needs-analysis" /\ currentCustomerId = last.arg[1])

\* a well-formed draft was submitted from the form and its request succeeded
SubmitCreatesCustomerWitness ==
  /\ last.op = "resolve" /\ last.kind = "createCustomer" /\ last.ok
  /\ last.snap = <<"customer">>
  /\ currentView = "needs-analysis" /\ currentCustomerId = MaxId

\* C2: when a fetch of a mounted view has failed, the view shows its error
\* message and its data variables have the values they had when the fetch
\* started.  (The failures NeedsAnalysis ignores are not failures of its fetch.)
FailedFetchKeepsData ==
  (/\ last.op = "resolve" /\ ~last.ok /\ last.live
   /\ last.kind \notin {"createCustomer", "needs.getCustomer", "needs.create"})
    => /\ "error" \in Shown(Owner(last.kind))
       /\ DataOf(Owner(last.kind)) = (IF last.kind \in PdfKinds \cup {"pdf.customers"}
                                      THEN <<last.snap[1]>> ELSE last.snap)

\* C3: no compare request is in flight for fewer than two products, and while
\* fewer than two products are selected the compare control is disabled and
\* handleCompare only sets its message: it issues nothing and leaves loading
\* and the comparison result as they are
CompareNeedsTwoSelected ==
  /\ \A r \in DOMAIN reqs : r.kind = "cmp.compare" => Len(r.arg) >= 2
  /\ (Active(CmpView) /\ Len(cmp.selectedProducts) < 2
        => /\ CompareDisabled(cmp)
           /\ handleCompare(cmp).issued = {}
           /\ handleCompare(cmp).st =
                [cmp EXCEPT !.error = "Please select at least 2 products to compare"])

\* after a comparison of two products one of them has been deselected
CompareNeedsTwoSelectedWitness ==
  /\ Active(CmpView) /\ last.op = "handleProductSelection"
  /\ Len(cmp.selectedProducts) = 1 /\ cmp.comparisonResult # NoData

\* C4: a step of generatePDF (its start, its success, its failure) leaves the
\* customers list and the selected customer as they were, and saves a file,
\* the one of the request, exactly when the request has succeeded
GeneratePdfStep ==
  /\ last'.op = "generatePDF" \/ (last'.op = "resolve" /\ last'.kind \in PdfKinds)
  /\ pdf'.customers = pdf.customers
  /\ pdf'.selectedCustomer = pdf.selectedCustomer
  /\ (last'.saved # NoFile) = (last'.op = "resolve" /\ last'.ok)
  /\ (last'.saved # NoFile => last'.saved = <<last'.kind, last'.arg[1]>>)

OtherStep ==
  /\ ~(last'.op = "generatePDF" \/ (last'.op = "resolve" /\ last'.kind \in PdfKinds))
  /\ last'.saved = NoFile

GeneratePdfKeepsData == [][GeneratePdfStep \/ OtherStep]_vars

\* a comprehensive report has been generated and saved for the selected customer
GeneratePdfKeepsDataWitness ==
  /\ last.op = "resolve" /\ last.kind = "pdf.comprehensive" /\ last.ok /\ last.live
  /\ last.saved = <<"pdf.comprehensive", pdf.selectedCustomer>>
  /\ pdf.customers = MaxCustomers /\ pdf.success # ""

\* <<y1, m1, d1>> is not after <<y2, m2, d2>>
NotAfter(a, b) ==
  \/ a[1] < b[1]
  \/ a[1] = b[1] /\ a[2] < b[2]
  \/ a[1] = b[1] /\ a[2] = b[2] /\ a[3] <= b[3]

\* the years completed at now by someone born on dob
CompletedYears(dob, now) ==
  now[1] - dob[1]
    - (IF now[2] < dob[2] \/ (now[2] = dob[2] /\ now[3] < dob[3]) THEN 1 ELSE 0)

\* C5: for every birth date not after the current date calculateAge returns
\* the completed years between the two
AgeIsCompletedYears ==
  (ageResult # NotComputed /\ dobArg # NoDate /\ NotAfter(dobArg, today))
    => ageResult = CompletedYears(dobArg, today)

\* C6: a mounted view never shows two of loading indicator, error message and
\* loaded content together, and shows no error message while a request of its
\* own is in flight
OneRenderState ==
  \A v \in FocusViews :
    Active(v) => /\ Cardinality(Shown(v)) <= 1
                 /\ ("error" \in Shown(v) => BagCardinality(OwnedBy(reqs, v)) = 0)

\* C7: of the requests started by saving a customer, by comparing products, by
\* generating a PDF and by calculating returns, at most one each is in flight
OneInFlightPerAction ==
  /\ InFlight(CreateKinds) <= 1
  /\ InFlight({"cmp.compare"}) <= 1
  /\ InFlight(PdfKinds) <= 1
  /\ InFlight({"calculator"}) <= 1

\* the requests in flight, whoever issued them
AllInFlight == reqs (+) orphans

\* C8: the step in which a request fails issues no request: the failed request
\* is gone and nothing else has joined the requests in flight
FailureStep ==
  (last'.op = "resolve" /\ ~last'.ok) => (AllInFlight' \sqsubseteq AllInFlight)

FailureIsTerminal == [][FailureStep]_vars

\* C9: a mounted view that shows an error offers a control that issues the
\* failed request again
ErrorPanelHasRetry ==
  \A v \in FocusViews : Active(v) /\ "error" \in Shown(v) => RetryOffered(v)

\* C10: navigation leaves a customer-creation request in flight as it is (the
\* request and App's loading flag), only its response removes it, and when it
\* succeeds App switches to 'needs-analysis' with the returned id, whatever
\* view it showed
NavigationStep ==
  last'.op \in {"handleViewChange", "handleBackToCustomer", "handleBackToNeedsAnalysis"}
    => /\ OfKind(reqs', CreateKinds) = OfKind(reqs, CreateKinds)
       /\ loading' = loading

CreateResponseStep ==
  /\ (BagCardinality(OfKind(reqs', CreateKinds)) < BagCardinality(OfKind(reqs, CreateKinds))
        => last'.op = "resolve" /\ last'.kind = "createCustomer")
  /\ (last'.op = "resolve" /\ last'.kind = "createCustomer" /\ last'.ok
        => currentView' = "needs-analysis" /\ currentCustomerId' = last'.arg[1])

CreateSurvivesNavigation == [][NavigationStep /\ CreateResponseStep]_vars

\* the response arrived, and succeeded, while App showed a view the user had
\* navigated to after submitting the draft
CreateSurvivesNavigationWitness ==
  /\ last.op = "resolve" /\ last.kind = "createCustomer" /\ last.ok
  /\ last.snap \notin {<<"customer">>, <<"needs-analysis">>}
  /\ currentView = "needs-analysis" /\ Truthy(currentCustomerId)

\* C11: the body of the creation request a submission issues is the draft of
\* the form at that moment: the same fields with the same values, none added,
\* none dropped
BodyIsDraft ==
  (last.op = "handleSubmit" /\ WellFormed(formData))
    => /\ \E r \in DOMAIN reqs : r.kind = "createCustomer"
       /\ \A r \in DOMAIN reqs : r.kind = "createCustomer" => r.arg = <<formData>>

\* a draft with every field filled in has just been submitted
BodyIsDraftWitness ==
  /\ last.op = "handleSubmit" /\ WellFormed(formData) /\ formData.age > 0
  /\ \E r \in DOMAIN reqs : r.kind = "createCustomer" /\ r.arg[1].name = "a"

\* C12: where native sharing is available a click on a share control invokes
\* it and no manual link list is ever shown; where it is not, a click toggles
\* the list of the control and Copy Link closes it
ShareStep ==
  /\ (last'.op = "handleShare" /\ canShare) => last'.arg = <<"navigator.share">>
  /\ (last'.op = "handleShare" /\ ~canShare)
        => IF last'.kind = "ShareButton"
           THEN ShareButtonListShown' = ~ShareButtonListShown
           ELSE RecsListShown' = ~RecsListShown
  /\ last'.op = "handleCopy"
        => IF last'.kind = "ShareButton" THEN ~ShareButtonListShown' ELSE ~RecsListShown'
  /\ canShare => ~ShareButtonListShown' /\ ~RecsListShown'

ShareContract == [][ShareStep]_vars

\* C13: when a PDF generation request fails, the error shown is the detail of
\* the failure response whenever it carries one, and the fixed text otherwise
PdfErrorIsDetail ==
  (last.op = "resolve" /\ last.kind \in PdfKinds /\ ~last.ok /\ last.live)
    => pdf.error = IF last.detail # NoDetail THEN last.detail
                   ELSE "Failed to generate PDF"

\* the positions of name that survive: every character that is not whitespace
\* and the first character of every run of whitespace
Kept(name) ==
  {i \in 1..Len(name) : ~IsSpace(name[i]) \/ i = 1 \/ ~IsSpace(name[i - 1])}

\* out is name with every run of whitespace replaced by one underscore
IsUnderscored(name, out) ==
  /\ Len(out) = Cardinality(Kept(name))
  /\ \A i \in Kept(name) :
       out[Cardinality({j \in Kept(name) : j <= i})]
         = IF IsSpace(name[i]) THEN "_" ELSE name[i]

DigitValue(ch) == CHOOSE k \in 0..9 : DigitChars[k + 1] = ch

\* text is dt written as YYYY-MM-DD
IsIsoOf(text, dt) ==
  /\ Len(text) = 10 /\ text[5] = "-" /\ text[8] = "-"
  /\ \A i \in {1, 2, 3, 4, 6, 7, 9, 10} : \E k \in 1..10 : DigitChars[k] = text[i]
  /\ dt[1] = 1000 * DigitValue(text[1]) + 100 * DigitValue(text[2])
               + 10 * DigitValue(text[3]) + DigitValue(text[4])
  /\ dt[2] = 10 * DigitValue(text[6]) + DigitValue(text[7])
  /\ dt[3] = 10 * DigitValue(text[9]) + DigitValue(text[10])

\* f is '<prefix>_<customer name>_<date>.pdf' for the report kind, the
\* customers list (ids 1..n) and the customer id of the request
IsReportFileName(f, kind, n, id) ==
  /\ Len(f) >= 14
  /\ f[1] = (IF kind = "pdf.needs-analysis" THEN "needs_analysis"
             ELSE "comprehensive_report")
  /\ f[2] = "_" /\ f[Len(f) - 11] = "_" /\ f[Len(f)] = ".pdf"
  /\ LET customerName == SubSeq(f, 3, Len(f) - 12)
     IN IF id \in 1..n THEN IsUnderscored(NameOf(id), customerName)
        ELSE customerName = <<"customer">>
  /\ \E dt \in UtcDates : IsIsoOf(SubSeq(f, Len(f) - 10, Len(f) - 1), dt)

CustomerViewHasId ==
  currentView \in {"needs-analysis", "recommendations"}
    => Truthy(currentCustomerId) /\ Mounted(currentView)

\* C16: a failed customer creation leaves the current view and the customer id
\* as they are, shows 'Failed to save customer. Please try again.' and clears
\* the loading flag; the customer id changes only when a creation succeeds
CreateFailureStep ==
  /\ (last'.op = "resolve" /\ last'.kind = "createCustomer" /\ ~last'.ok)
        => /\ currentView' = currentView
           /\ currentCustomerId' = currentCustomerId
           /\ message' = [type |-> "error",
                          text |-> "Failed to save customer. Please try again."]
           /\ loading' = FALSE
  /\ currentCustomerId' # currentCustomerId
        => last'.op = "resolve" /\ last'.kind = "createCustomer" /\ last'.ok

CreateFailureKeepsState == [][CreateFailureStep]_vars

CreateFailureKeepsStateWitness ==
  /\ last.op = "resolve" /\ last.kind = "createCustomer" /\ ~last.ok
  /\ Truthy(currentCustomerId) /\ currentView = "customer"
  /\ message # NoMessage /\ message.type = "error" /\ ~loading

\* this step has put a request of the kind in flight
Issued(kind) ==
  InFlight({kind})' > InFlight({kind})
                        - (IF last'.op = "resolve" /\ last'.kind = kind THEN 1 ELSE 0)

Resolved(kind) == last'.op = "resolve" /\ last'.kind = kind

\* the request that follows the one just answered in a mounted view is for the
\* same customer
SameCustomer(kind) ==
  last'.live => \E r \in DOMAIN reqs' : r.kind = kind /\ r.arg = last'.arg

\* C17: NeedsAnalysis mounted for customer c issues the customer read for c,
\* then the needs-analysis creation (only after the read has succeeded), then
\* the enhanced fetch for c, which is issued only once the creation attempt
\* has resolved and whether it succeeded or failed; what the view shows at the
\* end is content or error by the outcome of the enhanced fetch alone
NeedsOrderStep ==
  /\ Issued("needs.getCustomer")
       => /\ Mounted(NeedsView)'
          /\ \E r \in DOMAIN reqs' : r.kind = "needs.getCustomer"
                                     /\ r.arg = <<currentCustomerId'>>
  /\ Issued("needs.create") <=> (Resolved("needs.getCustomer") /\ last'.ok)
  /\ Issued("needs.enhanced")
       <=> (Resolved("needs.create") \/ (Resolved("needs.getCustomer") /\ ~last'.ok))
  /\ Issued("needs.create") => SameCustomer("needs.create")
  /\ Issued("needs.enhanced") => SameCustomer("needs.enhanced")
  /\ (Resolved("needs.getCustomer") \/ Resolved("needs.create")) => needs' = needs
  /\ (Resolved("needs.enhanced") /\ last'.live /\ needs.error = NoError)
       => NeedsRender' = IF last'.ok THEN "content" ELSE "error"

AgeOf(dob) ==
  LET age == calculateAge(dob, today, tzWest)
  IN IF age = NullAge THEN UndefinedAge ELSE age

\* C18: at every state of the customer form the age of the draft is
\* calculateAge of its date of birth, and is undefined when the date is empty
\* or in the future; an edit of another field changes neither of the two
DraftAgeStep ==
  FormActive'
    => /\ formData'.age = AgeOf(formData'.date_of_birth)
       /\ (formData'.date_of_birth = NoDate \/ ~NotAfter(formData'.date_of_birth, today))
            => formData'.age = UndefinedAge
       /\ (last'.op = "handleInputChange"
             /\ formData'.date_of_birth = formData.date_of_birth)
            => formData'.age = formData.age

DraftAgeFollowsDob == [][DraftAgeStep]_vars

\* C19: a submission of the customer form while name, email, phone or date of
\* birth is empty or the age is undefined calls no submit callback: no
\* creation request is issued and the view, the message, the loading flag and
\* the draft stay as they are
IllFormedSubmitStep ==
  (/\ last'.op = "handleSubmit"
   /\ \/ formData.name = "" \/ formData.email = "" \/ formData.phone = ""
      \/ formData.date_of_birth = NoDate \/ formData.age = UndefinedAge)
    => /\ reqs' = reqs /\ orphans' = orphans
       /\ currentView' = currentView /\ message' = message /\ loading' = loading
       /\ currentCustomerId' = currentCustomerId
       /\ formData' = formData

IllFormedSubmitDoesNothing == [][IllFormedSubmitStep]_vars

IllFormedSubmitDoesNothingWitness ==
  /\ last.op = "handleSubmit" /\ ~last.ok
  /\ formData.name # "" /\ formData.email # "" /\ formData.phone # ""
  /\ formData.date_of_birth # NoDate /\ formData.age = UndefinedAge
  /\ InFlight(CreateKinds) = 0 /\ ~loading /\ currentView = "customer"

FinalKinds == {"dashboard", "market.insights", "needs.enhanced", "recommendations",
               "products", "cmp.products", "cmp.compare", "pdf.customers",
               "pdf.needs-analysis", "pdf.comprehensive", "calculator"}

\* the views that render either their loading indicator, their error panel or
\* their content
EarlyReturnViews == {DashView, MarketView, NeedsView, RecsView, PlistView}

\* C21: once the most recent request of a view has succeeded and none of its
\* requests is in flight, the view shows no error message: an error left by an
\* earlier failed request is gone and the view renders its content
NoStaleError ==
  (/\ last.op = "resolve" /\ last.ok /\ last.live /\ last.kind \in FinalKinds
   /\ BagCardinality(OwnedBy(reqs, Owner(last.kind))) = 0)
    => /\ "error" \notin Shown(Owner(last.kind))
       /\ Owner(last.kind) \in EarlyReturnViews => Shown(Owner(last.kind)) = {"content"}

\* the loading flag of view v
LoadingOf(v) ==
  CASE v = DashView -> dash.loading
    [] v = MarketView -> market.loading
    [] v = NeedsView -> needs.loading
    [] v = RecsView -> recs.loading
    [] v = PlistView -> plist.loading
    [] v = CmpView -> cmp.loading
    [] v = PdfView -> pdf.loading
    [] v = InflView -> infl.loading

\* the mounted view has its loading flag set
ViewLoading == \E v \in FocusViews : Active(v) /\ LoadingOf(v)

\* a loading flag is set only in a step that issues a request of its owner
LoadingStartStep ==
  /\ \A v \in FocusViews :
       (Active(v)' /\ LoadingOf(v)' /\ ~(Active(v) /\ LoadingOf(v)))
         => ~(OwnedBy(reqs', v) \sqsubseteq OwnedBy(reqs, v))
  /\ (loading' /\ ~loading) => InFlight(CreateKinds)' > InFlight(CreateKinds)

\* C22: when every request is resolved in the end, the loading flag of the
\* mounted view and that of the root component become false after each
\* request, whatever its outcome, and once false a flag is set again only by
\* a step that issues the next request
LoadingEnds ==
  /\ ViewLoading ~> ~ViewLoading
  /\ loading ~> ~loading
  /\ [][LoadingStartStep]_vars

LoadingEndsWitness ==
  /\ last.op = "resolve" /\ last.kind = "market.latest" /\ ~last.ok /\ last.live
  /\ Active(MarketView) /\ ~market.loading /\ market.error # NoError
  /\ BagCardinality(reqs) = 0

MarketKinds == {"market.latest", "market.trends", "market.insights"}

\* C23: fetchMarketData issues latest, trends and insights in this order, each
\* only after the one before it has succeeded; the first failure sets the
\* error message and none of the remaining requests is issued
MarketOrderStep ==
  /\ Issued("market.latest")
       => /\ last'.op \in {"handleViewChange", "refresh"}
          /\ Cardinality(DOMAIN OfKind(reqs', MarketKinds)) = 1
  /\ Issued("market.trends") <=> (Resolved("market.latest") /\ last'.ok)
  /\ Issued("market.insights") <=> (Resolved("market.trends") /\ last'.ok)
  /\ (last'.op = "resolve" /\ last'.kind \in MarketKinds /\ ~last'.ok)
       => /\ InFlight(MarketKinds)' = InFlight(MarketKinds) - 1
          /\ last'.live
               => market'.error = "Failed to fetch market data. Please try again later."

MarketDataOrder == [][MarketOrderStep]_vars

MarketDataOrderWitness ==
  /\ last.op = "resolve" /\ last.kind = "market.trends" /\ ~last.ok /\ last.live
  /\ Active(MarketView) /\ market.error # NoError
  /\ market.marketData # NoData /\ market.insights = NoData
  /\ InFlight(MarketKinds) = 0

\* C24: handleViewChange(v) sets the current view to v, closes the menu and
\* clears the message; the customer id and the loading flag stay as they are
\* and App issues no request (the requests that appear are those of the mount
\* effect of the view entered)
ViewChangeStep ==
  last'.op = "handleViewChange"
    => /\ currentView' = last'.arg[1]
       /\ isMenuOpen' = FALSE
       /\ message' = NoMessage
       /\ currentCustomerId' = currentCustomerId
       /\ loading' = loading
       /\ OfKind(reqs', CreateKinds) = OfKind(reqs, CreateKinds)
       /\ \A r \in DOMAIN reqs' :
            (r \notin DOMAIN reqs \/ reqs'[r] > reqs[r])
              => Owner(r.kind) = currentView' /\ currentView' # currentView

ViewChangeOnlySwitches == [][ViewChangeStep]_vars

ViewChangeOnlySwitchesWitness ==
  /\ last.op = "handleViewChange" /\ last.arg = <<"customers-360">>
  /\ currentView = "customers-360"
  /\ loading /\ InFlight(CreateKinds) = 1 /\ Truthy(currentCustomerId)
  /\ message = NoMessage /\ ~isMenuOpen

\* C25: PDFReports never shows its error message and its success message
\* together: generatePDF clears both before its request, and when it finishes
\* exactly one of them is set, the success message if the request succeeded
PdfMessagesStep ==
  /\ ~(pdf'.error # NoError /\ pdf'.success # "")
  /\ last'.op = "generatePDF"
       => pdf'.error = NoError /\ pdf'.success = ""
          /\ InFlight(PdfKinds)' = InFlight(PdfKinds) + 1
  /\ (last'.op = "resolve" /\ last'.kind \in PdfKinds /\ last'.live)
       => /\ (pdf'.success # "") <=> last'.ok
          /\ (pdf'.error # NoError) <=> ~last'.ok

PdfMessagesExclusive == [][PdfMessagesStep]_vars

PdfMessagesExclusiveWitness ==
  /\ last.op = "resolve" /\ last.kind = "pdf.needs-analysis" /\ last.ok /\ last.live
  /\ Active(PdfView) /\ pdf.success # "" /\ pdf.error = NoError
  /\ pdf.selectedCustomer = 2 /\ last.arg = <<1>>

\* C26: the page title in the header is that of the menu item of the current
\* view, the view mounted in the content area
TitleNamesView == Mounted(currentView) => getCurrentMenuItem = currentView

====
